---- MODULE Spec2Model ----
(***************************************************************************)
(* json-distiller, src/core.rs: the structural key canonicalizer, the      *)
(* content-hash structure cache, the fingerprint generator, the depth      *)
(* scanner, the pattern compressor and the recursive distillation engine.  *)
(*                                                                         *)
(* JSON values (serde_json::Value) are records tagged by t:                *)
(*   [t |-> "null"], [t |-> "bool", b], [t |-> "num", n, f] (f: is_f64),   *)
(*   [t |-> "str", s |-> text], [t |-> "arr", a |-> <<values>>],           *)
(*   [t |-> "obj", o |-> << <<field, value>>, ... >>] in insertion order.  *)
(* Text (a Rust String: a string value, a fingerprint, a display string)   *)
(* is a sequence of one-character strings, compared byte-wise through      *)
(* Ascii, as String::cmp does. Field names are TLA+ strings, spelled out   *)
(* by Chars where their characters matter.                                 *)
(***************************************************************************)
EXTENDS Integers, Sequences, FiniteSets, TLC

VARIABLES
    doc,                    \* json_data handed to distill_json
    strict_typing,          \* option of the run
    position_dependent,     \* option of the run
    pc,                     \* "ready" before the first call, "done" after a call
    ncalls,                 \* completed calls of the entry point
    result,                 \* value returned by the last call
    previous,               \* value returned by the call before it
    min_depths,             \* min-depth table of the last distill_json call
    structure_cache,        \* Structure Cache (content hash -> key)
    memoized_examples,      \* Example Memo of the last call
    global_examples_shown,  \* shown-counter of the last call
    lists,                  \* every list the engine processed, in order
    shows,                  \* the inlinings present in distilled_data
    keyed,                  \* canonicalizer calls so far: [item, key, hash]
    hash_sequence,          \* input of the pattern compressor
    pattern_output,         \* its entries
    pattern_string          \* their display string

vars == <<doc, strict_typing, position_dependent, pc, ncalls, result, previous,
          min_depths, structure_cache, memoized_examples, global_examples_shown,
          lists, shows, keyed, hash_sequence, pattern_output, pattern_string>>

----------------------------------------------------------------------------
(* JSON values *)

Null == [t |-> "null"]
Bool(b) == [t |-> "bool", b |-> b]
Num(n) == [t |-> "num", n |-> n, f |-> FALSE]
Float(n) == [t |-> "num", n |-> n, f |-> TRUE]
Str(s) == [t |-> "str", s |-> s]
Arr(a) == [t |-> "arr", a |-> a]
Obj(o) == [t |-> "obj", o |-> o]

\* matches!(item, Value::Object(_) | Value::Array(_))
IsContainer(v) == v.t \in {"arr", "obj"}

Range(s) == {s[i] : i \in DOMAIN s}

RECURSIVE Concat(_)
Concat(ss) == IF ss = <<>> THEN <<>> ELSE Head(ss) \o Concat(Tail(ss))

----------------------------------------------------------------------------
(* Text *)

Ascii ==
    (" " :> 32) @@ ("\"" :> 34) @@ ("'" :> 39) @@ ("(" :> 40) @@ (")" :> 41) @@ ("," :> 44) @@
    ("-" :> 45) @@ ("." :> 46) @@ ("0" :> 48) @@ ("1" :> 49) @@ ("2" :> 50) @@ ("3" :> 51) @@
    ("4" :> 52) @@ ("5" :> 53) @@ ("6" :> 54) @@ ("7" :> 55) @@ ("8" :> 56) @@ ("9" :> 57) @@
    ("N" :> 78) @@ ("T" :> 84) @@ ("_" :> 95) @@ ("a" :> 97) @@ ("b" :> 98) @@ ("c" :> 99) @@
    ("d" :> 100) @@ ("e" :> 101) @@ ("f" :> 102) @@ ("g" :> 103) @@ ("h" :> 104) @@ ("i" :> 105) @@
    ("j" :> 106) @@ ("k" :> 107) @@ ("l" :> 108) @@ ("m" :> 109) @@ ("n" :> 110) @@ ("o" :> 111) @@
    ("p" :> 112) @@ ("q" :> 113) @@ ("r" :> 114) @@ ("s" :> 115) @@ ("t" :> 116) @@ ("u" :> 117) @@
    ("v" :> 118) @@ ("w" :> 119) @@ ("x" :> 120) @@ ("y" :> 121) @@ ("z" :> 122)

\* The characters of the strings the model's documents and keys are made of.
Chars ==
    ("bool" :> <<"b", "o", "o", "l">>) @@
    ("str" :> <<"s", "t", "r">>) @@
    ("int" :> <<"i", "n", "t">>) @@
    ("float" :> <<"f", "l", "o", "a", "t">>) @@
    ("NoneType" :> <<"N", "o", "n", "e", "T", "y", "p", "e">>) @@
    ("value" :> <<"v", "a", "l", "u", "e">>) @@
    ("true" :> <<"t", "r", "u", "e">>) @@
    ("false" :> <<"f", "a", "l", "s", "e">>) @@
    ("null" :> <<"n", "u", "l", "l">>) @@
    ("_structure_hash" :> <<"_", "s", "t", "r", "u", "c", "t", "u", "r", "e", "_", "h", "a", "s", "h">>) @@
    [c \in {"a", "b", "c", "k", "p", "q", "r", "x", "y"} |-> <<c>>]

\* String::cmp / str::cmp: -1, 0, 1 for Less, Equal, Greater (byte-wise
\* lexicographic, a proper prefix is Less).
TextCmp(x, y) ==
    LET n == IF Len(x) < Len(y) THEN Len(x) ELSE Len(y)
        diff == {i \in 1..n : x[i] # y[i]}
    IN  IF diff = {}
        THEN (IF Len(x) < Len(y) THEN -1 ELSE IF Len(x) > Len(y) THEN 1 ELSE 0)
        ELSE LET i == CHOOSE j \in diff : \A m \in diff : j <= m
             IN  IF Ascii[x[i]] < Ascii[y[i]] THEN -1 ELSE 1

DigitChar == <<"0", "1", "2", "3", "4", "5", "6", "7", "8", "9">>

RECURSIVE Digits(_)
Digits(n) == IF n < 10 THEN <<DigitChar[n + 1]>>
             ELSE Digits(n \div 10) \o <<DigitChar[(n % 10) + 1]>>

\* serde_json::Number::to_string: an integer prints its digits, an f64 with
\* an integral value prints them followed by ".0".
NumberToString(v) ==
    (IF v.n < 0 THEN <<"-">> \o Digits(-v.n) ELSE Digits(v.n))
    \o (IF v.f THEN <<".", "0">> ELSE <<>>)

\* serde_json::to_string of a scalar.
ScalarJson(v) ==
    CASE v.t = "null" -> Chars["null"]
      [] v.t = "bool" -> (IF v.b THEN Chars["true"] ELSE Chars["false"])
      [] v.t = "num"  -> NumberToString(v)
      [] v.t = "str"  -> <<"\"">> \o v.s \o <<"\"">>

----------------------------------------------------------------------------
(* DeepStructureKey and its textual form *)

Primitive(type_name) == [k |-> "Primitive", name |-> type_name]
Dict(items) == [k |-> "Dict", items |-> items]
List(elements) == [k |-> "List", elements |-> elements]
EmptyList == [k |-> "EmptyList"]

ReprPrimOpen == <<"(", "'", "p", "r", "i", "m", "i", "t", "i", "v", "e", "'", ",", " ", "'">>
ReprPrimClose == <<"'", ")">>
ReprEmpty == <<"(", "'", "l", "i", "s", "t", "'", ",", " ", "'", "e", "m", "p", "t", "y", "'", ")">>
ReprListOpen == <<"(", "'", "l", "i", "s", "t", "'", ",", " ", "(">>
ReprDictOpen == <<"(", "'", "d", "i", "c", "t", "'", ",", " ", "(">>
ReprSep == <<",", " ">>
ReprCloseOne == <<",", ")", ")">>
ReprClose == <<")", ")">>
ReprItemOpen == <<"(", "'">>
ReprItemMid == <<"'", ",", " ">>

\* Vec<String>::join(", ")
RECURSIVE Join(_, _)
Join(parts, sep) ==
    IF parts = <<>> THEN <<>>
    ELSE IF Len(parts) = 1 THEN parts[1]
    ELSE parts[1] \o sep \o Join(Tail(parts), sep)

RECURSIVE to_python_repr(_)
to_python_repr(key) ==
    CASE key.k = "Primitive" -> ReprPrimOpen \o Chars[key.name] \o ReprPrimClose
      [] key.k = "EmptyList" -> ReprEmpty
      [] key.k = "List" ->
            LET element_reprs == [i \in DOMAIN key.elements |->
                                      to_python_repr(key.elements[i])]
            IN  IF Len(element_reprs) = 1
                THEN ReprListOpen \o element_reprs[1] \o ReprCloseOne
                ELSE ReprListOpen \o Join(element_reprs, ReprSep) \o ReprClose
      [] key.k = "Dict" ->
            LET items_repr == [i \in DOMAIN key.items |->
                                  ReprItemOpen \o Chars[key.items[i][1]] \o ReprItemMid
                                  \o to_python_repr(key.items[i][2]) \o <<")">>]
            IN  IF Len(items_repr) = 1
                THEN ReprDictOpen \o items_repr[1] \o ReprCloseOne
                ELSE ReprDictOpen \o Join(items_repr, ReprSep) \o ReprClose

\* impl Ord for DeepStructureKey: the order of the textual forms.
KeyCmp(x, y) == TextCmp(to_python_repr(x), to_python_repr(y))

\* generate_hash: the first four bytes of the MD5 digest of the textual form.
\* The digest is taken to be collision-free on the keys of the model, so the
\* fingerprint is identified by the text it digests.
generate_hash(key) == to_python_repr(key)

----------------------------------------------------------------------------
(* Hash containers: FxHashSet / FxHashMap iteration *)

RECURSIVE SetSeq(_)
SetSeq(S) == IF S = {} THEN <<>>
             ELSE LET x == CHOOSE y \in S : TRUE IN <<x>> \o SetSeq(S \ {x})

Reverse(s) == [i \in DOMAIN s |-> s[Len(s) + 1 - i]]

\* The orders in which a hash set may hand out its elements: the order is a
\* function of the hasher and the table, not of the program, so the model
\* takes it as an input of the run.
IterOrders == {"fwd", "rev"}

\* FxHashSet::into_iter
IntoIter(S, io) == IF io = "fwd" THEN SetSeq(S) ELSE Reverse(SetSeq(S))

----------------------------------------------------------------------------
(* Content Hasher and Structure Cache *)

\* keys.sort_unstable() on the field names of one object (names are unique)
RECURSIVE InsertField(_, _)
InsertField(p, sorted) ==
    IF sorted = <<>> THEN <<p>>
    ELSE IF TextCmp(Chars[p[1]], Chars[Head(sorted)[1]]) < 0 THEN <<p>> \o sorted
    ELSE <<Head(sorted)>> \o InsertField(p, Tail(sorted))

RECURSIVE SortFields(_)
SortFields(pairs) == IF pairs = <<>> THEN <<>>
                     ELSE InsertField(Head(pairs), SortFields(Tail(pairs)))

\* A faulty content hash: only the tag of the value is written.
hash_value_tag_only(value) == <<value.t>>

\* hash_value_recursive: what is written to the hasher, as a tree: the tag,
\* the scalar's content (a number by its to_string), an array's elements in
\* order, an object's fields in sorted name order.
RECURSIVE hash_value_recursive(_)
hash_value_recursive(value) ==
    CASE value.t = "null" -> <<0>>
      [] value.t = "bool" -> <<1, value.b>>
      [] value.t = "num"  -> <<2, NumberToString(value)>>
      [] value.t = "str"  -> <<3, value.s>>
      [] value.t = "arr"  -> <<4, Len(value.a),
                               [i \in DOMAIN value.a |-> hash_value_recursive(value.a[i])]>>
      [] value.t = "obj"  ->
            LET keys == SortFields(value.o)
            IN  <<5, Len(value.o),
                  [i \in DOMAIN keys |->
                      <<keys[i][1], hash_value_recursive(keys[i][2])>>]>>

\* hash_json_value: the 64-bit AHasher digest of strict_typing followed by
\* the stream above, taken to be collision-free: two values have the same
\* hash exactly when they write the same stream.
hash_json_value(value, strict) == <<strict, hash_value_recursive(value)>>

\* sorted_keys.sort_unstable() by impl Ord for DeepStructureKey
RECURSIVE InsertKey(_, _)
InsertKey(x, sorted) ==
    IF sorted = <<>> THEN <<x>>
    ELSE IF KeyCmp(x, Head(sorted)) < 0 THEN <<x>> \o sorted
    ELSE <<Head(sorted)>> \o InsertKey(x, Tail(sorted))

RECURSIVE SortKeys(_)
SortKeys(s) == IF s = <<>> THEN <<>>
               ELSE InsertKey(s[Len(s)], SortKeys(SubSeq(s, 1, Len(s) - 1)))

\* The `?` of the source is the test of err after each fallible call: "" is
\* Ok, anything else the DistillError::Internal that is propagated.
NoError == ""

\* Both return [key, cache, err]: the key and the cache as the call leaves it.
RECURSIVE get_deep_structure_key_cached(_, _, _, _)
RECURSIVE get_deep_structure_key_impl(_, _, _, _)
RECURSIVE DictPairs(_, _, _, _, _)
RECURSIVE ElementKeys(_, _, _, _, _)

get_deep_structure_key_cached(item, strict, cache, io) ==
    IF ~IsContainer(item) THEN get_deep_structure_key_impl(item, strict, cache, io)
    ELSE LET Insert(cache_key, r) ==
                 IF r.err # NoError THEN r
                 ELSE [key |-> r.key, cache |-> (cache_key :> r.key) @@ r.cache,
                       err |-> NoError]
             Lookup(cache_key) ==
                 IF cache_key \in DOMAIN cache
                 THEN [key |-> cache[cache_key], cache |-> cache, err |-> NoError]
                 ELSE Insert(cache_key, get_deep_structure_key_impl(item, strict, cache, io))
         IN  Lookup(hash_json_value(item, strict))

\* for (k, v) in map: pairs.push((k, cached(v)?))
DictPairs(fields, strict, cache, io, pairs) ==
    IF fields = <<>> THEN [pairs |-> pairs, cache |-> cache, err |-> NoError]
    ELSE LET Push(r) ==
                 IF r.err # NoError THEN [pairs |-> pairs, cache |-> r.cache, err |-> r.err]
                 ELSE DictPairs(Tail(fields), strict, r.cache, io,
                                Append(pairs, <<Head(fields)[1], r.key>>))
         IN  Push(get_deep_structure_key_cached(Head(fields)[2], strict, cache, io))

\* for elem in list: element_keys.insert(cached(elem)?)
ElementKeys(list, strict, cache, io, element_keys) ==
    IF list = <<>> THEN [keys |-> element_keys, cache |-> cache, err |-> NoError]
    ELSE LET Insert(r) ==
                 IF r.err # NoError
                 THEN [keys |-> element_keys, cache |-> r.cache, err |-> r.err]
                 ELSE ElementKeys(Tail(list), strict, r.cache, io, element_keys \cup {r.key})
         IN  Insert(get_deep_structure_key_cached(Head(list), strict, cache, io))

get_deep_structure_key_impl(item, strict, cache, io) ==
    CASE item.t = "obj" ->
            LET Collected(r) == [key |-> Dict(r.pairs), cache |-> r.cache, err |-> r.err]
            IN  Collected(DictPairs(item.o, strict, cache, io, <<>>))
      [] item.t = "arr" ->
            IF item.a = <<>> THEN [key |-> EmptyList, cache |-> cache, err |-> NoError]
            ELSE LET Collected(r) ==
                         [key |-> IF r.err # NoError THEN EmptyList
                                  ELSE List(SortKeys(IntoIter(r.keys, io))),
                          cache |-> r.cache, err |-> r.err]
                 IN  Collected(ElementKeys(item.a, strict, cache, io, {}))
      [] item.t = "null" ->
            [key |-> IF strict THEN Primitive("NoneType") ELSE Primitive("value"),
             cache |-> cache, err |-> NoError]
      [] OTHER ->
            IF ~strict THEN [key |-> Primitive("value"), cache |-> cache, err |-> NoError]
            ELSE CASE item.t = "bool" ->
                         [key |-> Primitive("bool"), cache |-> cache, err |-> NoError]
                   [] item.t = "str" ->
                         [key |-> Primitive("str"), cache |-> cache, err |-> NoError]
                   [] item.t = "num" ->
                         [key |-> IF item.f THEN Primitive("float") ELSE Primitive("int"),
                          cache |-> cache, err |-> NoError]
                   [] OTHER ->
                         [key |-> EmptyList, cache |-> cache,
                          err |-> "Unexpected type in primitive match arm"]

EmptyCache == <<>>

\* The key get_deep_structure_key_impl builds when no lookup of the Structure
\* Cache hits: fields in the object's own order, the deduplicated sorted keys
\* of a list's elements, a scalar by its type name.
RECURSIVE StructuralKey(_, _)
StructuralKey(item, strict) ==
    CASE item.t = "obj" ->
            Dict([i \in DOMAIN item.o |->
                     <<item.o[i][1], StructuralKey(item.o[i][2], strict)>>])
      [] item.t = "arr" ->
            IF item.a = <<>> THEN EmptyList
            ELSE List(SortKeys(SetSeq({StructuralKey(item.a[i], strict) :
                                           i \in DOMAIN item.a})))
      [] OTHER -> get_deep_structure_key_impl(item, strict, EmptyCache, "fwd").key

----------------------------------------------------------------------------
(* Pattern Compressor *)

\* hash_sequence[i], 0-based as in the source
At(seq, i) == seq[i + 1]

\* json!({"pattern": [...], "repeat": n})
PatternRecord(pattern, repeat) ==
    Obj(<< <<"pattern", Arr([j \in DOMAIN pattern |-> Str(pattern[j])])>>,
           <<"repeat", Num(repeat)>> >>)

\* A faulty run loop: the rest of the sequence is counted, equal or not.
RunLoopBlind(seq, i, run_len) == Len(seq) - i

\* while i + run_len < n && hash_sequence[i + run_len] == *current_hash
RECURSIVE RunLoop(_, _, _)
RunLoop(seq, i, run_len) ==
    IF i + run_len < Len(seq) /\ At(seq, i + run_len) = At(seq, i)
    THEN RunLoop(seq, i, run_len + 1)
    ELSE run_len

\* A faulty pair loop: the repetitions after the first are not counted.
PairLoopOnce(seq, i, run_len_pairs) == run_len_pairs

\* while i + (run_len_pairs + 1) * 2 <= n && get(i + 2p) == Some(a) && get(i + 2p + 1) == Some(b)
RECURSIVE PairLoop(_, _, _)
PairLoop(seq, i, run_len_pairs) ==
    IF /\ i + (run_len_pairs + 1) * 2 <= Len(seq)
       /\ i + run_len_pairs * 2 < Len(seq)
       /\ At(seq, i + run_len_pairs * 2) = At(seq, i)
       /\ i + run_len_pairs * 2 + 1 < Len(seq)
       /\ At(seq, i + run_len_pairs * 2 + 1) = At(seq, i + 1)
    THEN PairLoop(seq, i, run_len_pairs + 1)
    ELSE run_len_pairs

\* the body of `while i < n`
RECURSIVE ScanFrom(_, _)
ScanFrom(seq, i) ==
    IF ~(i < Len(seq)) THEN <<>>
    ELSE LET Pairs(run_len_pairs) ==
                 <<PatternRecord(<<At(seq, i), At(seq, i + 1)>>, run_len_pairs)>>
                 \o ScanFrom(seq, i + run_len_pairs * 2)
             Run(run_len) ==
                 IF run_len >= 2
                 THEN <<PatternRecord(<<At(seq, i)>>, run_len)>> \o ScanFrom(seq, i + run_len)
                 ELSE IF /\ i + 3 < Len(seq)
                         /\ At(seq, i + 2) = At(seq, i)
                         /\ At(seq, i + 3) = At(seq, i + 1)
                      THEN Pairs(PairLoop(seq, i, 1))
                      ELSE <<Str(At(seq, i))>> \o ScanFrom(seq, i + 1)
         IN  Run(RunLoop(seq, i, 1))

find_adjacent_patterns_python_style(seq) ==
    IF seq = <<>> THEN <<>> ELSE ScanFrom(seq, 0)

\* serde_json::Map::get
HasField(obj, name) == \E i \in DOMAIN obj.o : obj.o[i][1] = name
Field(obj, name) == obj.o[CHOOSE i \in DOMAIN obj.o : obj.o[i][1] = name][2]

\* one element of pattern_output rendered, <<>> when it is rendered as nothing
PatternPart(element_val) ==
    IF element_val.t = "str" THEN <<element_val.s>>
    ELSE IF /\ element_val.t = "obj"
            /\ HasField(element_val, "pattern")
            /\ HasField(element_val, "repeat")
            /\ Field(element_val, "pattern").t = "arr"
            /\ Field(element_val, "repeat").t = "num"
            /\ ~Field(element_val, "repeat").f
            /\ Field(element_val, "repeat").n >= 0
         THEN LET Render(pattern_hashes, repeat_count) ==
                      IF Len(pattern_hashes) > 1
                      THEN << <<"[">> \o Join(pattern_hashes, <<" ">>) \o <<"]", "(", "x">>
                              \o repeat_count \o <<")">> >>
                      ELSE << Join(pattern_hashes, <<" ">>) \o <<"(", "x">>
                              \o repeat_count \o <<")">> >>
                  Hashes(strs) == [j \in DOMAIN strs |-> strs[j].s]
              IN  Render(Hashes(SelectSeq(Field(element_val, "pattern").a,
                                          LAMBDA v : v.t = "str")),
                         Digits(Field(element_val, "repeat").n))
         ELSE <<>>

format_pattern_to_string_python_style(pattern_output_) ==
    Join(Concat([j \in DOMAIN pattern_output_ |-> PatternPart(pattern_output_[j])]), <<" ">>)

----------------------------------------------------------------------------
(* Depth Scanner *)

\* list.iter().all(|item| !matches!(item, Object | Array))
is_list_of_primitives(list) == \A i \in DOMAIN list : ~IsContainer(list[i])

RECURSIVE collect_structure_depths(_, _, _, _, _, _)
RECURSIVE ScanValues(_, _, _, _, _, _)
RECURSIVE ScanItems(_, _, _, _, _, _)

\* All three return [cache, accumulator, err].
\* for v in map.values(): collect_structure_depths(v, depth + 1, ..)?
ScanValues(fields, depth, strict, io, cache, accumulator) ==
    IF fields = <<>> THEN [cache |-> cache, accumulator |-> accumulator, err |-> NoError]
    ELSE LET Rest(r) ==
                 IF r.err # NoError THEN r
                 ELSE ScanValues(Tail(fields), depth, strict, io, r.cache, r.accumulator)
         IN  Rest(collect_structure_depths(Head(fields)[2], depth + 1, strict, io,
                                           cache, accumulator))

\* A faulty scan of a list: the items are recorded but not descended into.
ScanItemsShallow(list, depth, strict, io, cache, accumulator) ==
    IF list = <<>> THEN [cache |-> cache, accumulator |-> accumulator, err |-> NoError]
    ELSE LET Record(current_hash, k) ==
                 ScanItems(Tail(list), depth, strict, io, k.cache,
                           IF current_hash \in DOMAIN accumulator
                           THEN [accumulator EXCEPT ![current_hash] =
                                     IF @ < depth THEN @ ELSE depth]
                           ELSE (current_hash :> depth) @@ accumulator)
             Keyed(k) ==
                 IF k.err # NoError
                 THEN [cache |-> k.cache, accumulator |-> accumulator, err |-> k.err]
                 ELSE Record(generate_hash(k.key), k)
         IN  Keyed(get_deep_structure_key_cached(Head(list), strict, cache, io))

\* for item in list: fingerprint, record the minimum depth, recurse
ScanItems(list, depth, strict, io, cache, accumulator) ==
    IF list = <<>> THEN [cache |-> cache, accumulator |-> accumulator, err |-> NoError]
    ELSE LET Rest(r) ==
                 IF r.err # NoError THEN r
                 ELSE ScanItems(Tail(list), depth, strict, io, r.cache, r.accumulator)
             Record(current_hash, k) ==
                 Rest(collect_structure_depths(Head(list), depth + 1, strict, io, k.cache,
                          IF current_hash \in DOMAIN accumulator
                          THEN [accumulator EXCEPT ![current_hash] =
                                    IF @ < depth THEN @ ELSE depth]
                          ELSE (current_hash :> depth) @@ accumulator))
             Keyed(k) ==
                 IF k.err # NoError
                 THEN [cache |-> k.cache, accumulator |-> accumulator, err |-> k.err]
                 ELSE Record(generate_hash(k.key), k)
         IN  Keyed(get_deep_structure_key_cached(Head(list), strict, cache, io))

collect_structure_depths(container, depth, strict, io, cache, accumulator) ==
    CASE container.t = "obj" ->
            ScanValues(container.o, depth, strict, io, cache, accumulator)
      [] container.t = "arr" ->
            IF container.a = <<>> \/ is_list_of_primitives(container.a)
            THEN [cache |-> cache, accumulator |-> accumulator, err |-> NoError]
            ELSE ScanItems(container.a, depth, strict, io, cache, accumulator)
      [] OTHER -> [cache |-> cache, accumulator |-> accumulator, err |-> NoError]

----------------------------------------------------------------------------
(* Distillation Engine: the scalar-list path *)

\* A faulty comparator: numbers compared by value instead of by their text.
scalar_cmp_by_value(a, b) ==
    IF a.t = "num" /\ b.t = "num"
    THEN (IF a.n < b.n THEN -1 ELSE IF a.n > b.n THEN 1 ELSE 0)
    ELSE IF a.t = "str" /\ b.t = "str" THEN TextCmp(a.s, b.s)
    ELSE IF a.t = "bool" /\ b.t = "bool"
         THEN (IF a.b = b.b THEN 0 ELSE IF b.b THEN -1 ELSE 1)
    ELSE TextCmp(ScalarJson(a), ScalarJson(b))

\* the comparator of sorted_values.sort_by
scalar_cmp(a, b) ==
    IF a.t = "num" /\ b.t = "num" THEN TextCmp(NumberToString(a), NumberToString(b))
    ELSE IF a.t = "str" /\ b.t = "str" THEN TextCmp(a.s, b.s)
    ELSE IF a.t = "bool" /\ b.t = "bool"
         THEN (IF a.b = b.b THEN 0 ELSE IF b.b THEN -1 ELSE 1)
    ELSE TextCmp(ScalarJson(a), ScalarJson(b))

\* slice::sort_by is stable: an element goes after the ones that do not
\* compare Greater than it
RECURSIVE InsertScalar(_, _)
InsertScalar(x, sorted) ==
    IF sorted = <<>> THEN <<x>>
    ELSE IF scalar_cmp(Head(sorted), x) > 0 THEN <<x>> \o sorted
    ELSE <<Head(sorted)>> \o InsertScalar(x, Tail(sorted))

\* A faulty sort: the values stay in the order the hash set handed them out.
SortScalarsSkipped(s) == s

RECURSIVE SortScalars(_)
SortScalars(s) == IF s = <<>> THEN <<>>
                  ELSE InsertScalar(s[Len(s)], SortScalars(SubSeq(s, 1, Len(s) - 1)))

\* lines 411-443: unique values, nulls filtered out, sorted, then one null
\* pushed for every null of the original list
DistillScalarList(original_list, io) ==
    LET unique_values == Range(original_list)
        sorted_values == SortScalars(SelectSeq(IntoIter(unique_values, io),
                                               LAMBDA v : v.t # "null"))
        null_count == Cardinality({i \in DOMAIN original_list : original_list[i].t = "null"})
    IN  sorted_values \o [j \in 1..null_count |-> Null]

----------------------------------------------------------------------------
(* Distillation Engine: the shape path *)

\* A faulty map lookup: no key is ever found.
MapHasNever(m, key) == FALSE

\* IndexMap<String, _> as a sequence of <<key, value>> in insertion order
MapHas(m, key) == \E j \in DOMAIN m : m[j][1] = key
MapGet(m, key) == m[CHOOSE j \in DOMAIN m : m[j][1] = key][2]

\* The context threaded by reference through the traversal:
\*   strict, posdep, io, min_depths  read-only inputs of the run
\*   memo     memoized_examples, (false, hash, depth, 0) -> [val, shows]
\*   cache    structure_cache
\*   shown    global_examples_shown
\*   lists    one record per list processed on the shape path
\*   err      the DistillError::Internal raised, NoError when none
\* distill_recursive returns [val, shows, cx]: the distilled value, the
\* inlinings <<fingerprint, depth>> that value holds, and the context.

\* lines 454-463: hashes and first occurrences. Returns [acc, cache, err].
RECURSIVE FirstPass(_, _, _, _, _, _)
FirstPass(original_list, i, strict, io, cache, acc) ==
    IF ~(i < Len(original_list)) THEN [acc |-> acc, cache |-> cache, err |-> NoError]
    ELSE LET Entry(item, current_hash, vacant, k) ==
                 FirstPass(original_list, i + 1, strict, io, k.cache,
                     [hash_sequence |-> Append(acc.hash_sequence, current_hash),
                      first_occurrence_indices |->
                          IF vacant
                          THEN Append(acc.first_occurrence_indices, <<current_hash, i>>)
                          ELSE acc.first_occurrence_indices,
                      local_first_examples |->
                          IF vacant /\ ~MapHas(acc.local_first_examples, current_hash)
                          THEN Append(acc.local_first_examples, <<current_hash, item>>)
                          ELSE acc.local_first_examples])
             Hashed(item, current_hash, k) ==
                 Entry(item, current_hash,
                       ~MapHas(acc.first_occurrence_indices, current_hash), k)
             Keyed(item, k) ==
                 IF k.err # NoError THEN [acc |-> acc, cache |-> k.cache, err |-> k.err]
                 ELSE Hashed(item, generate_hash(k.key), k)
         IN  Keyed(At(original_list, i),
                   get_deep_structure_key_cached(At(original_list, i), strict, cache, io))

\* the hashes a pattern_output refers to
ReferencedHashes(pattern_output_) ==
    UNION { IF pattern_output_[j].t = "str" THEN {pattern_output_[j].s}
            ELSE IF /\ pattern_output_[j].t = "obj"
                    /\ HasField(pattern_output_[j], "pattern")
                    /\ Field(pattern_output_[j], "pattern").t = "arr"
                 THEN { v.s : v \in { w \in Range(Field(pattern_output_[j], "pattern").a) :
                                      w.t = "str" } }
                 ELSE {}
            : j \in DOMAIN pattern_output_ }

\* A faulty process_summary_block: the block is not cleared after its summary
\* is pushed.
process_summary_block_uncleared(summarized_hashes, referenced_hashes, output_list) ==
    IF summarized_hashes = <<>>
    THEN [summarized_hashes |-> summarized_hashes,
          referenced_hashes |-> referenced_hashes,
          output_list |-> output_list]
    ELSE [summarized_hashes |-> summarized_hashes,
          referenced_hashes |-> referenced_hashes \cup Range(summarized_hashes),
          output_list |->
              Append(output_list,
                  Obj(<< <<"item_count", Num(Len(summarized_hashes))>>,
                         <<"summarized_pattern",
                           Str(format_pattern_to_string_python_style(
                                   find_adjacent_patterns_python_style(
                                       summarized_hashes)))>> >>))]

\* lines 505-536: the closure process_summary_block
process_summary_block(summarized_hashes, referenced_hashes, output_list) ==
    IF summarized_hashes = <<>>
    THEN [summarized_hashes |-> summarized_hashes,
          referenced_hashes |-> referenced_hashes,
          output_list |-> output_list]
    ELSE LET Summary(pattern_output_) ==
                 [summarized_hashes |-> <<>>,
                  referenced_hashes |-> referenced_hashes
                                        \cup ReferencedHashes(pattern_output_),
                  output_list |->
                      Append(output_list,
                          Obj(<< <<"item_count", Num(Len(summarized_hashes))>>,
                                 <<"summarized_pattern",
                                   Str(format_pattern_to_string_python_style(
                                           pattern_output_))>> >>))]
         IN  Summary(find_adjacent_patterns_python_style(summarized_hashes))

\* lines 543-553; min_depths.get(..).unwrap_or(usize::MAX) is NoDepth, which
\* no depth equals
NoDepth == -1

\* Two faulty policies: position_dependent ignored, either way.
should_show_first_in_list(posdep, is_first, depth, current_hash, mins, shown) ==
    is_first

should_show_at_min_depth(posdep, is_first, depth, current_hash, mins, shown) ==
    /\ is_first
    /\ depth = (IF current_hash \in DOMAIN mins THEN mins[current_hash] ELSE NoDepth)
    /\ (IF current_hash \in DOMAIN shown THEN shown[current_hash] ELSE 0) < 1

should_show_example(posdep, is_first, depth, current_hash, mins, shown) ==
    IF posdep THEN is_first
    ELSE LET hash_min_depth == IF current_hash \in DOMAIN mins
                               THEN mins[current_hash] ELSE NoDepth
             examples_shown_count == IF current_hash \in DOMAIN shown
                                     THEN shown[current_hash] ELSE 0
         IN  is_first /\ depth = hash_min_depth /\ examples_shown_count < 1

\* lines 538-570: the third pass from position i on. st holds new_list, the
\* summarized_hashes_block, hashes_referenced_in_summaries,
\* first_item_positions, the shown-counter, the inlinings of new_list, the
\* decision taken at each position and the error raised.
RECURSIVE ThirdPass(_, _, _, _, _, _)
ThirdPass(hashes, i, first_occurrence_indices, distilled_first_examples, env, st) ==
    IF ~(i < Len(hashes)) \/ st.err # NoError THEN st
    ELSE LET Show(current_hash, b, distilled_item) ==
                 ThirdPass(hashes, i + 1, first_occurrence_indices,
                     distilled_first_examples, env,
                     [block |-> b.summarized_hashes,
                      referenced |-> b.referenced_hashes,
                      first_item_positions |->
                          (current_hash :> Len(b.output_list)) @@ st.first_item_positions,
                      new_list |-> Append(b.output_list, distilled_item.val),
                      shown |-> (current_hash :>
                                   (IF current_hash \in DOMAIN st.shown
                                    THEN st.shown[current_hash] ELSE 0) + 1)
                                @@ st.shown,
                      shows |-> st.shows \o << <<current_hash, env.depth>> >>
                                  \o distilled_item.shows,
                      decisions |-> Append(st.decisions, TRUE),
                      err |-> NoError])
             Step(current_hash) ==
                 IF should_show_example(env.posdep,
                        MapGet(first_occurrence_indices, current_hash) = i,
                        env.depth, current_hash, env.min_depths, st.shown)
                 THEN IF ~MapHas(distilled_first_examples, current_hash)
                      THEN [st EXCEPT !.err = "Distilled example missing for hash"]
                      ELSE Show(current_hash,
                                process_summary_block(st.block, st.referenced, st.new_list),
                                MapGet(distilled_first_examples, current_hash))
                 ELSE ThirdPass(hashes, i + 1, first_occurrence_indices,
                          distilled_first_examples, env,
                          [st EXCEPT !.block = Append(@, current_hash),
                                     !.decisions = Append(@, FALSE)])
         IN  Step(At(hashes, i))

\* A faulty labelling: every inlined object is labelled, referred to or not.
LabelEveryExample(new_list, first_item_positions, referenced) ==
    [j \in DOMAIN new_list |->
        IF \E h \in DOMAIN first_item_positions :
               /\ first_item_positions[h] = j - 1
               /\ new_list[j].t = "obj"
               /\ ~HasField(new_list[j], "_structure_hash")
        THEN LET h == CHOOSE g \in DOMAIN first_item_positions :
                          first_item_positions[g] = j - 1
             IN  Obj(Append(new_list[j].o, <<"_structure_hash", Str(h)>>))
        ELSE new_list[j]]

\* lines 573-583: label the first examples that a summary refers to
LabelFirstExamples(new_list, first_item_positions, referenced) ==
    [j \in DOMAIN new_list |->
        IF \E h \in DOMAIN first_item_positions :
               /\ first_item_positions[h] = j - 1
               /\ h \in referenced
               /\ new_list[j].t = "obj"
               /\ ~HasField(new_list[j], "_structure_hash")
        THEN LET h == CHOOSE g \in DOMAIN first_item_positions :
                          first_item_positions[g] = j - 1 /\ g \in referenced
             IN  Obj(Append(new_list[j].o, <<"_structure_hash", Str(h)>>))
        ELSE new_list[j]]

\* A faulty memo lookup: every lookup misses.
MemoizedNever(memo, memo_key) == FALSE

\* line 473: memoized_examples.get(&memo_key) is Some
Memoized(memo, memo_key) == memo_key \in DOMAIN memo

RECURSIVE distill_recursive(_, _, _)
RECURSIVE DistillFields(_, _, _, _, _)
RECURSIVE SecondPass(_, _, _, _, _)

\* lines 388-398: every field distilled at depth + 1, in field order
DistillFields(fields, depth, cx, pairs, inlined) ==
    IF fields = <<>> THEN [pairs |-> pairs, shows |-> inlined, cx |-> cx]
    ELSE LET Insert(d) ==
                 IF d.cx.err # NoError THEN [pairs |-> pairs, shows |-> inlined, cx |-> d.cx]
                 ELSE DistillFields(Tail(fields), depth, d.cx,
                                    Append(pairs, <<Head(fields)[1], d.val>>),
                                    inlined \o d.shows)
         IN  Insert(distill_recursive(Head(fields)[2], depth + 1, cx))

\* lines 470-497: the distilled form of every first example, from the memo
\* or computed at depth + 1 and memoized
SecondPass(keys, local_first_examples, depth, cx, distilled) ==
    IF keys = <<>> THEN [distilled |-> distilled, cx |-> cx]
    ELSE LET Memoize(hash, memo_key, d) ==
                 IF d.cx.err # NoError THEN [distilled |-> distilled, cx |-> d.cx]
                 ELSE SecondPass(Tail(keys), local_first_examples, depth,
                          [d.cx EXCEPT !.memo =
                              (memo_key :> [val |-> d.val, shows |-> d.shows]) @@ @],
                          Append(distilled, <<hash, [val |-> d.val, shows |-> d.shows]>>))
             Example(hash, memo_key) ==
                 IF Memoized(cx.memo, memo_key)
                 THEN SecondPass(Tail(keys), local_first_examples, depth, cx,
                                 Append(distilled, <<hash, cx.memo[memo_key]>>))
                 ELSE IF ~MapHas(local_first_examples, hash)
                 THEN [distilled |-> distilled,
                       cx |-> [cx EXCEPT !.err = "Original first example missing for hash"]]
                 ELSE Memoize(hash, memo_key,
                          distill_recursive(MapGet(local_first_examples, hash),
                                            depth + 1, cx))
         IN  Example(Head(keys)[1], <<FALSE, Head(keys)[1], depth, 0>>)

\* lines 445-585: a list with an object or array element
DistillShapeList(original_list, depth, cx) ==
    LET Labelled(p1, p2, p3, new_list) ==
            [val |-> Arr(new_list),
             shows |-> p3.shows,
             cx |-> [p2.cx EXCEPT
                       !.shown = p3.shown,
                       !.lists = Append(@,
                           [depth |-> depth,
                            original_list |-> original_list,
                            hash_sequence |-> p1.acc.hash_sequence,
                            decisions |-> p3.decisions,
                            first_item_positions |-> p3.first_item_positions,
                            new_list |-> new_list])]]
        Flushed(p1, p2, p3, last) ==
            Labelled(p1, p2, p3,
                     LabelFirstExamples(last.output_list, p3.first_item_positions,
                                        last.referenced_hashes))
        Third(p1, p2, p3) ==
            IF p3.err # NoError
            THEN [val |-> Null, shows |-> <<>>,
                  cx |-> [p2.cx EXCEPT !.shown = p3.shown, !.err = p3.err]]
            ELSE Flushed(p1, p2, p3,
                         process_summary_block(p3.block, p3.referenced, p3.new_list))
        Second(p1, p2) ==
            IF p2.cx.err # NoError THEN [val |-> Null, shows |-> <<>>, cx |-> p2.cx]
            ELSE Third(p1, p2,
                     ThirdPass(p1.acc.hash_sequence, 0,
                         p1.acc.first_occurrence_indices, p2.distilled,
                         [posdep |-> cx.posdep, depth |-> depth,
                          min_depths |-> cx.min_depths],
                         [new_list |-> <<>>, block |-> <<>>, referenced |-> {},
                          first_item_positions |-> <<>>, shown |-> p2.cx.shown,
                          shows |-> <<>>, decisions |-> <<>>, err |-> NoError]))
        First(p1) ==
            IF p1.err # NoError
            THEN [val |-> Null, shows |-> <<>>,
                  cx |-> [cx EXCEPT !.cache = p1.cache, !.err = p1.err]]
            ELSE Second(p1,
                     SecondPass(p1.acc.first_occurrence_indices,
                                p1.acc.local_first_examples, depth,
                                [cx EXCEPT !.cache = p1.cache], <<>>))
    IN  First(FirstPass(original_list, 0, cx.strict, cx.io, cx.cache,
                  [hash_sequence |-> <<>>, first_occurrence_indices |-> <<>>,
                   local_first_examples |-> <<>>]))

distill_recursive(original_container, depth, cx) ==
    CASE original_container.t = "obj" ->
            LET Collected(r) == [val |-> Obj(r.pairs), shows |-> r.shows, cx |-> r.cx]
            IN  Collected(DistillFields(original_container.o, depth, cx, <<>>, <<>>))
      [] original_container.t = "arr" ->
            IF original_container.a = <<>>
            THEN [val |-> Arr(<<>>), shows |-> <<>>, cx |-> cx]
            ELSE IF is_list_of_primitives(original_container.a)
            THEN [val |-> Arr(DistillScalarList(original_container.a, cx.io)),
                  shows |-> <<>>, cx |-> cx]
            ELSE DistillShapeList(original_container.a, depth, cx)
      [] OTHER -> [val |-> original_container, shows |-> <<>>, cx |-> cx]

----------------------------------------------------------------------------
(* Entry point *)

DescriptionHead == "Distilled JSON structure. Shows the first encountered example for each unique deep structure within lists.\nPOSITION_DEPENDENT mode: "
DescriptionMiddle == "\n  - true: Examples shown independently at each nesting level (predictable, depth-aware).\n  - false: Examples shown only at shallowest occurrence (more concise, globally unique).\nItems between these examples are summarized by a 'summarized_pattern' object, indicating the sequence\nof structure hashes (e.g., hashA hashB(x3) [hashC hashD](x2)) and the total item count.\nFirst examples are labeled with '_structure_hash' only if their hash appears in a subsequent summary pattern.\nStrict primitive typing for structure detection: "
DescriptionTail == ". Repeat threshold for pattern summarization (internal, affects formatting): >=2."

\* A faulty description: the two options in each other's place.
DescriptionSwapped(strict, posdep) ==
    <<DescriptionHead>> \o (IF strict THEN Chars["true"] ELSE Chars["false"])
    \o <<DescriptionMiddle>> \o (IF posdep THEN Chars["true"] ELSE Chars["false"])
    \o <<DescriptionTail>>

\* lines 621-632: the format! of the description
Description(strict, posdep) ==
    <<DescriptionHead>> \o (IF posdep THEN Chars["true"] ELSE Chars["false"])
    \o <<DescriptionMiddle>> \o (IF strict THEN Chars["true"] ELSE Chars["false"])
    \o <<DescriptionTail>>

\* distill_json. The caches, the memo and the counter are created empty by
\* every call. Returns [out, cx, shows]: the value returned, the state of the
\* run when it returns and the inlinings of out (out is Null on an error).
distill_json(json_data, strict, repeat_threshold, posdep, io) ==
    LET Wrapped(d) ==
            IF d.cx.err # NoError
            THEN [out |-> Null, cx |-> d.cx, shows |-> <<>>]
            ELSE [out |-> Obj(<< <<"description", Str(Description(strict, posdep))>>,
                                 <<"distilled_data", d.val>> >>),
                  cx |-> d.cx, shows |-> d.shows]
        Start(scan) ==
            [strict |-> strict, posdep |-> posdep, io |-> io,
             min_depths |-> scan.accumulator,
             memo |-> <<>>, cache |-> scan.cache, shown |-> <<>>,
             lists |-> <<>>, err |-> scan.err]
        Scanned(scan) ==
            IF scan.err # NoError
            THEN [out |-> Null, cx |-> Start(scan), shows |-> <<>>]
            ELSE Wrapped(distill_recursive(json_data, 0, Start(scan)))
    IN  Scanned(IF ~posdep /\ IsContainer(json_data)
                THEN collect_structure_depths(json_data, 0, strict, io, EmptyCache, <<>>)
                ELSE [cache |-> EmptyCache, accumulator |-> <<>>, err |-> NoError])

----------------
(* The documents and options of the model *)

MaxLen == 3      \* longest list drawn for a document
MaxCalls == 2    \* calls of the entry point in one behaviour

\* sequences over S of length 1..n
SeqsUpTo(S, n) == UNION {[1..m -> S] : m \in 1..n}

X1 == Obj(<< <<"x", Num(1)>> >>)
X2 == Obj(<< <<"x", Num(2)>> >>)
AB == Obj(<< <<"a", Num(1)>>, <<"b", Num(2)>> >>)
BA == Obj(<< <<"b", Num(2)>>, <<"a", Num(1)>> >>)
NX == Obj(<< <<"k", Arr(<<X1>>)>> >>)
EL == Arr(<<>>)
LX == Arr(<<X1>>)
TG == Obj(<< <<"_structure_hash", Str(<<"k">>)>> >>)

\* one list at the root, of objects and arrays
ShapeItems == {X1, X2, AB, BA, NX, EL, LX, TG}
ShapeDocs == {Arr(l) : l \in SeqsUpTo(ShapeItems, MaxLen)}

\* two lists, the second under p and the first under q or q.r, so that a
\* shape occurs in sibling lists of one depth or at two depths, the deeper
\* one traversed first
PairItems == {X1, X2, NX, Num(1)}
Siblings == {<<X1>>, <<X2, X1>>, <<NX>>, <<Num(1), X1>>}
Wrap(w, l) == IF w = "flat" THEN Arr(l) ELSE Obj(<< <<"r", Arr(l)>> >>)
PairDocs == {Obj(<< <<"q", Wrap(w[1], l)>>, <<"p", Wrap(w[2], m)>> >>) :
                 w \in {"flat", "deep"} \X {"flat", "deep"},
                 l \in SeqsUpTo(PairItems, MaxLen - 1), m \in Siblings}

\* one list of scalars at the root
Scalars == {Num(2), Num(10), Str(<<"a">>), Str(<<"b">>), Bool(TRUE), Null}
ScalarDocs == {Arr(l) : l \in SeqsUpTo(Scalars, MaxLen)}
            \cup {Arr(<<Num(3), Num(1), Num(2), Num(1), Null, Str(<<"a">>)>>)}

Docs == ShapeDocs \cup PairDocs \cup ScalarDocs

RepeatThresholds == {2, 3}

----------------------------------------------------------------------------
(* Spec: calls of distill_json on one document with one option tuple *)

Init ==
    /\ doc \in Docs
    /\ strict_typing \in BOOLEAN
    /\ position_dependent \in BOOLEAN
    /\ pc = "ready"
    /\ ncalls = 0
    /\ result = Null
    /\ previous = Null
    /\ min_depths = <<>>
    /\ structure_cache = EmptyCache
    /\ memoized_examples = <<>>
    /\ global_examples_shown = <<>>
    /\ lists = <<>>
    /\ shows = <<>>
    /\ keyed = <<>>
    /\ hash_sequence = <<>>
    /\ pattern_output = <<>>
    /\ pattern_string = <<>>

\* One call of distill_json(doc, strict_typing, repeat_threshold,
\* position_dependent); the variables keep what the call returned and the
\* state it ran on.
DistillJson ==
    /\ ncalls < MaxCalls
    /\ \E repeat_threshold \in RepeatThresholds, io \in IterOrders :
         \E r \in {distill_json(doc, strict_typing, repeat_threshold,
                                position_dependent, io)} :
             /\ result' = r.out
             /\ min_depths' = r.cx.min_depths
             /\ structure_cache' = r.cx.cache
             /\ memoized_examples' = r.cx.memo
             /\ global_examples_shown' = r.cx.shown
             /\ lists' = r.cx.lists
             /\ shows' = r.shows
             /\ pc' = IF r.cx.err = NoError THEN "done" ELSE "error"
    /\ previous' = result
    /\ ncalls' = ncalls + 1
    /\ UNCHANGED <<doc, strict_typing, position_dependent, keyed,
                   hash_sequence, pattern_output, pattern_string>>

Next == DistillJson

Spec == Init /\ [][Next]_vars

----------------------------------------------------------------------------
(* KeySpec: calls of the canonicalizer on the Structure Cache of a run *)

MaxKeyCalls == 2   \* canonicalizer calls in one behaviour

KeyItems == {X1, X2, AB, BA, EL, Arr(<<X1>>), Arr(<<X1, X1, X1>>), Arr(<<X1, X2>>),
             Arr(<<X1, AB>>), Arr(<<AB, X1>>), Arr(<<AB, BA>>), Arr(<<BA, AB>>)}

KeyInit ==
    /\ doc = Null
    /\ strict_typing \in BOOLEAN
    /\ position_dependent = FALSE
    /\ pc = "ready"
    /\ ncalls = 0
    /\ result = Null
    /\ previous = Null
    /\ min_depths = <<>>
    /\ structure_cache = EmptyCache
    /\ memoized_examples = <<>>
    /\ global_examples_shown = <<>>
    /\ lists = <<>>
    /\ shows = <<>>
    /\ keyed = <<>>
    /\ hash_sequence = <<>>
    /\ pattern_output = <<>>
    /\ pattern_string = <<>>

\* get_deep_structure_key_cached(item, strict_typing, &mut structure_cache)
\* followed by generate_hash, as the first pass and the scanner call them
Canonicalize ==
    /\ Len(keyed) < MaxKeyCalls
    /\ \E item \in KeyItems, io \in IterOrders :
         \E r \in {get_deep_structure_key_cached(item, strict_typing,
                                                 structure_cache, io)} :
             /\ r.err = NoError
             /\ structure_cache' = r.cache
             /\ keyed' = Append(keyed, [item |-> item, key |-> r.key,
                                         hash |-> generate_hash(r.key)])
    /\ UNCHANGED <<doc, strict_typing, position_dependent, pc, ncalls, result,
                   previous, min_depths, memoized_examples, global_examples_shown,
                   lists, shows, hash_sequence, pattern_output, pattern_string>>

\* distill_json line 599: the next call starts on an empty Structure Cache
NewRun ==
    /\ structure_cache # EmptyCache
    /\ structure_cache' = EmptyCache
    /\ UNCHANGED <<doc, strict_typing, position_dependent, pc, ncalls, result,
                   previous, min_depths, memoized_examples, global_examples_shown,
                   lists, shows, keyed, hash_sequence, pattern_output,
                   pattern_string>>

KeyNext == Canonicalize \/ NewRun

KeySpec == KeyInit /\ [][KeyNext]_vars

----------------------------------------------------------------------------
(* PatSpec: the pattern compressor on a sequence of fingerprints *)

MaxSeq == 6   \* longest sequence handed to the compressor

PatHashes == {<<"h", "1">>, <<"h", "2">>, <<"h", "3">>}

PatInit ==
    /\ doc = Null
    /\ strict_typing = FALSE
    /\ position_dependent = FALSE
    /\ pc = "ready"
    /\ ncalls = 0
    /\ result = Null
    /\ previous = Null
    /\ min_depths = <<>>
    /\ structure_cache = EmptyCache
    /\ memoized_examples = <<>>
    /\ global_examples_shown = <<>>
    /\ lists = <<>>
    /\ shows = <<>>
    /\ keyed = <<>>
    /\ hash_sequence = <<>>
    /\ pattern_output = <<>>
    /\ pattern_string = <<>>

\* lines 509-510: find_adjacent_patterns_python_style, then
\* format_pattern_to_string_python_style on its entries. Both are functions of
\* their argument alone, so a behaviour is one call.
Compress ==
    /\ pc = "ready"
    /\ \E seq \in SeqsUpTo(PatHashes, MaxSeq) :
         \E out \in {find_adjacent_patterns_python_style(seq)} :
             /\ hash_sequence' = seq
             /\ pattern_output' = out
             /\ pattern_string' = format_pattern_to_string_python_style(out)
    /\ pc' = "done"
    /\ UNCHANGED <<doc, strict_typing, position_dependent, ncalls, result,
                   previous, min_depths, structure_cache, memoized_examples,
                   global_examples_shown, lists, shows, keyed>>

PatNext == Compress

PatSpec == PatInit /\ [][PatNext]_vars

----------------------------------------------------------------------------
(* Properties *)

\* distilled_data of the value the last call returned
Data == Field(result, "distilled_data")

\* the document is one non-empty list of scalars
ScalarListDoc == doc.t = "arr" /\ doc.a # <<>> /\ is_list_of_primitives(doc.a)

Count(seq, x) == Cardinality({i \in DOMAIN seq : seq[i] = x})

\* position i holds the first occurrence of its element in seq
FirstIn(seq, i) == \A j \in 1..(i - 1) : seq[j] # seq[i]

\* the value a processed list inlined for fingerprint h
Inlined(l, h) == l.new_list[l.first_item_positions[h] + 1]

\* a value without the cross-reference tag the labelling appends
Untagged(v) ==
    IF v.t = "obj" THEN Obj(SelectSeq(v.o, LAMBDA p : p[1] # "_structure_hash")) ELSE v

\* two objects with the same fields and child shapes, listed in another order
Reordered(x, y) ==
    /\ x.t = "obj" /\ y.t = "obj"
    /\ Len(x.o) = Len(y.o)
    /\ {<<x.o[i][1], StructuralKey(x.o[i][2], strict_typing)>> : i \in DOMAIN x.o}
       = {<<y.o[i][1], StructuralKey(y.o[i][2], strict_typing)>> : i \in DOMAIN y.o}
    /\ [i \in DOMAIN x.o |-> x.o[i][1]] # [i \in DOMAIN y.o |-> y.o[i][1]]

\* two non-empty lists whose elements have the same set of shapes
SameShapes(x, y) ==
    /\ x.t = "arr" /\ y.t = "arr" /\ x.a # <<>> /\ y.a # <<>>
    /\ {StructuralKey(x.a[i], strict_typing) : i \in DOMAIN x.a}
       = {StructuralKey(y.a[i], strict_typing) : i \in DOMAIN y.a}

\* C1. Shape grouping: in every list processed on the shape path, two
\* elements receive the same fingerprint if and only if their structural keys
\* by the canonicalizer's rules (fields in original order, lists as the sorted
\* set of child keys, scalars by type name) are equal, whatever the Structure
\* Cache already holds.
C1_ShapeGrouping ==
    \A n \in DOMAIN lists :
        \A i, j \in DOMAIN lists[n].original_list :
            (lists[n].hash_sequence[i] = lists[n].hash_sequence[j])
            <=> (StructuralKey(lists[n].original_list[i], strict_typing)
                 = StructuralKey(lists[n].original_list[j], strict_typing))

\* C2. Field order is part of the shape: two objects with the same field names
\* and child shapes in a different order get different keys and different
\* fingerprints from get_deep_structure_key_cached and generate_hash, in every
\* cache state, identical scalar values included.
C2_FieldOrderDistinguishes ==
    \A i, j \in DOMAIN keyed :
        Reordered(keyed[i].item, keyed[j].item)
        => keyed[i].key # keyed[j].key /\ keyed[i].hash # keyed[j].hash

\* C3. Depth-independent single showing: with position_dependent = false every
\* fingerprint of an element of a list of the document is inlined exactly once
\* in distilled_data, in a list at the fingerprint's minimum depth; every
\* other occurrence is folded, the first occurrence of a deeper list that the
\* traversal reaches first included.
C3_SingleShowingAtMinDepth ==
    (pc = "done" /\ ~position_dependent) =>
        /\ \A n \in DOMAIN lists : \A i \in DOMAIN lists[n].hash_sequence :
               /\ lists[n].hash_sequence[i] \in DOMAIN min_depths
               /\ min_depths[lists[n].hash_sequence[i]] <= lists[n].depth
        /\ \A h \in DOMAIN min_depths :
            /\ Cardinality({i \in DOMAIN shows : shows[i][1] = h}) = 1
            /\ \A i \in DOMAIN shows : shows[i][1] = h => shows[i][2] = min_depths[h]
            /\ \A n \in DOMAIN lists : \A i \in DOMAIN lists[n].hash_sequence :
                   (lists[n].hash_sequence[i] = h /\ lists[n].decisions[i])
                   => lists[n].depth = min_depths[h]

C3_Witness ==
    /\ pc = "done" /\ ~position_dependent
    /\ \E n, m \in DOMAIN lists :
         /\ n < m
         /\ lists[n].depth > lists[m].depth
         /\ ~lists[n].decisions[1]
         /\ \E i \in DOMAIN lists[m].hash_sequence :
              /\ lists[m].hash_sequence[i] = lists[n].hash_sequence[1]
              /\ lists[m].decisions[i]
              /\ <<lists[m].hash_sequence[i], lists[m].depth>> \in Range(shows)

\* C4. Depth-dependent per-list showing: with position_dependent = true, in
\* every list processed on the shape path each distinct fingerprint is inlined
\* exactly once, at its first occurrence in that list, and every later
\* occurrence is folded, whatever the depth, the other lists and the
\* shown-counter.
C4_FirstOccurrencePerList ==
    position_dependent =>
        \A n \in DOMAIN lists :
            /\ Len(lists[n].decisions) = Len(lists[n].hash_sequence)
            /\ \A i \in DOMAIN lists[n].hash_sequence :
                   lists[n].decisions[i] <=> FirstIn(lists[n].hash_sequence, i)
            /\ DOMAIN lists[n].first_item_positions = Range(lists[n].hash_sequence)
            /\ Cardinality({i \in DOMAIN lists[n].new_list :
                               \E h \in DOMAIN lists[n].first_item_positions :
                                   lists[n].first_item_positions[h] = i - 1})
               = Cardinality(Range(lists[n].hash_sequence))

C4_Witness ==
    /\ pc = "done" /\ position_dependent
    /\ \E n, m \in DOMAIN lists :
         /\ n # m
         /\ lists[n].depth > 0
         /\ Len(lists[n].hash_sequence) >= 2
         /\ lists[n].hash_sequence[1] = lists[n].hash_sequence[2]
         /\ lists[n].decisions[1] /\ ~lists[n].decisions[2]
         /\ lists[m].hash_sequence[1] = lists[n].hash_sequence[1]
         /\ lists[m].decisions[1]

\* C5. The scalar-list path is sorted-unique with nulls last: a non-empty list
\* of scalars distills to a list with no summary record, with each distinct
\* value of the input exactly once (null included) and every null after every
\* non-null value.
C5_ScalarListUnique ==
    (pc = "done" /\ ScalarListDoc) =>
        /\ Data.t = "arr"
        /\ \A i \in DOMAIN Data.a : Data.a[i].t # "obj"
        /\ Range(Data.a) = Range(doc.a)
        /\ \A v \in Range(doc.a) : Count(Data.a, v) = 1
        /\ \A i, j \in DOMAIN Data.a :
               (Data.a[i].t = "null" /\ Data.a[j].t # "null") => j < i

\* the rank of a scalar's type in the order the comparator induces
TypeRank(v) ==
    CASE v.t = "str" -> 0 [] v.t = "num" -> 1 [] v.t = "bool" -> 2 [] v.t = "null" -> 3

\* numbers by their textual form, strings lexically
OrderedWithinType(out) ==
    \A i, j \in DOMAIN out :
        i < j =>
            /\ (out[i].t = "num" /\ out[j].t = "num")
               => TextCmp(NumberToString(out[i]), NumberToString(out[j])) <= 0
            /\ (out[i].t = "str" /\ out[j].t = "str") => TextCmp(out[i].s, out[j].s) <= 0

ExampleInput == <<Num(3), Num(1), Num(2), Num(1), Null, Str(<<"a">>)>>

\* C6, as the program behaves. Ordering across types on the scalar-list path:
\* every string precedes every number, every number precedes every boolean
\* and nulls come last, so that [3,1,2,1,null,"a"] distills to
\* ["a",1,2,3,null]; numbers among themselves are ordered by their textual
\* numeric form and strings lexically.
C6_StringsThenNumbers ==
    (pc = "done" /\ ScalarListDoc) =>
        /\ \A i, j \in DOMAIN Data.a : i < j => TypeRank(Data.a[i]) <= TypeRank(Data.a[j])
        /\ OrderedWithinType(Data.a)
        /\ doc.a = ExampleInput
           => Data.a = <<Str(<<"a">>), Num(1), Num(2), Num(3), Null>>

C6_Witness ==
    /\ pc = "done"
    /\ doc = Arr(ExampleInput)
    /\ Data.a = <<Str(<<"a">>), Num(1), Num(2), Num(3), Null>>

\* C6, as stated. Every number precedes every string and nulls come last, so
\* that [3,1,2,1,null,"a"] distills to [1,2,3,"a",null]; numbers among
\* themselves are ordered by their textual numeric form and strings lexically.
C6_NumbersThenStrings ==
    (pc = "done" /\ ScalarListDoc) =>
        /\ \A i, j \in DOMAIN Data.a :
               /\ (Data.a[i].t = "num" /\ Data.a[j].t = "str") => i < j
               /\ (Data.a[i].t = "null" /\ Data.a[j].t # "null") => j < i
        /\ OrderedWithinType(Data.a)
        /\ doc.a = ExampleInput
           => Data.a = <<Num(1), Num(2), Num(3), Str(<<"a">>), Null>>

\* C7, as the program behaves. Idempotent memoization: with
\* position_dependent = true, for two lists processed at the same depth that
\* both hold an element of fingerprint F, the values inlined for F are equal
\* apart from the _structure_hash field that the labelling appends in a list
\* whose summary refers to F, whatever the scalars of the lists' own first
\* F-shaped elements and however often F occurs in each.
C7_MemoizedEqualUntagged ==
    position_dependent =>
        \A n, m \in DOMAIN lists :
            lists[n].depth = lists[m].depth =>
                \A h \in DOMAIN lists[n].first_item_positions
                         \cap DOMAIN lists[m].first_item_positions :
                    Untagged(Inlined(lists[n], h)) = Untagged(Inlined(lists[m], h))

C7_Witness ==
    /\ pc = "done" /\ position_dependent
    /\ \E n, m \in DOMAIN lists :
         /\ n < m
         /\ lists[n].depth = lists[m].depth
         /\ \E h \in DOMAIN lists[n].first_item_positions
                     \cap DOMAIN lists[m].first_item_positions :
              /\ Count(lists[n].hash_sequence, h) # Count(lists[m].hash_sequence, h)
              /\ \E i \in DOMAIN lists[m].original_list :
                   /\ lists[m].hash_sequence[i] = h
                   /\ FirstIn(lists[m].hash_sequence, i)
                   /\ lists[m].original_list[i].t = "obj"
                   /\ \A j \in DOMAIN lists[n].original_list :
                          lists[n].original_list[j] # lists[m].original_list[i]
              /\ Inlined(lists[n], h) # Inlined(lists[m], h)
              /\ Untagged(Inlined(lists[n], h)) = Untagged(Inlined(lists[m], h))

\* C7, as stated. With position_dependent = true, for two lists processed at
\* the same depth that both hold an element of fingerprint F, the values
\* inlined for F in the two output lists are equal, whatever the scalars of
\* the lists' own first F-shaped elements and however often F occurs in each.
C7_MemoizedEqual ==
    position_dependent =>
        \A n, m \in DOMAIN lists :
            lists[n].depth = lists[m].depth =>
                \A h \in DOMAIN lists[n].first_item_positions
                         \cap DOMAIN lists[m].first_item_positions :
                    Inlined(lists[n], h) = Inlined(lists[m], h)

\* C8. Determinism: two calls of distill_json on the same document with the
\* same strict_typing and position_dependent return equal results, whatever
\* order the hash sets hand out their elements in either call and whatever
\* the earlier call left behind; the repeat threshold does not matter either.
C8_Deterministic == ncalls >= 2 => result = previous

C8_Witness ==
    /\ ncalls = 2 /\ pc = "done"
    /\ result = previous
    /\ \/ ScalarListDoc /\ Cardinality(Range(doc.a) \ {Null}) >= 2
       \/ \E n \in DOMAIN lists : \E i \in DOMAIN lists[n].original_list :
              /\ lists[n].original_list[i].t = "arr"
              /\ Cardinality(Range(lists[n].original_list[i].a)) >= 2

\* the text of a repeat count below ten
Numeral(n) == <<DigitChar[n + 1]>>

\* C9. Run compression of uniform sequences: n >= 2 copies of a fingerprint A
\* give the single entry {pattern:[A], repeat:n}, rendered "A(xn)"; A B
\* repeated k >= 2 times, A # B, gives the single entry
\* {pattern:[A,B], repeat:k}, rendered "[A B](xk)".
C9_UniformRuns ==
    /\ \A A \in PatHashes : \A n \in 2..Len(hash_sequence) :
           hash_sequence = [j \in 1..n |-> A] =>
               /\ pattern_output =
                      <<Obj(<< <<"pattern", Arr(<<Str(A)>>)>>, <<"repeat", Num(n)>> >>)>>
               /\ pattern_string = A \o <<"(", "x">> \o Numeral(n) \o <<")">>
    /\ \A A, B \in PatHashes : \A k \in 2..Len(hash_sequence) :
           (A # B /\ hash_sequence = [j \in 1..(2 * k) |-> IF j % 2 = 1 THEN A ELSE B]) =>
               /\ pattern_output =
                      <<Obj(<< <<"pattern", Arr(<<Str(A), Str(B)>>)>>,
                               <<"repeat", Num(k)>> >>)>>
               /\ pattern_string = <<"[">> \o A \o <<" ">> \o B \o <<"]", "(", "x">>
                                   \o Numeral(k) \o <<")">>

C9_Witness ==
    /\ hash_sequence = <<<<"h", "1">>, <<"h", "2">>, <<"h", "1">>, <<"h", "2">>,
                         <<"h", "1">>, <<"h", "2">>>>
    /\ pattern_string = <<"[", "h", "1", " ", "h", "2", "]", "(", "x", "3", ")">>

\* C10. List shape is a set: a non-empty list and any list obtained from it by
\* permuting its elements or by repeating or removing duplicate-shaped
\* elements have the same key and the same fingerprint; three identically
\* shaped objects and one such object make lists of one fingerprint.
C10_ListShapeIsSet ==
    \A i, j \in DOMAIN keyed :
        SameShapes(keyed[i].item, keyed[j].item)
        => keyed[i].key = keyed[j].key /\ keyed[i].hash = keyed[j].hash

\* C11. Empty-list identity: under both typings the key and the fingerprint
\* of the empty list differ from those of every non-empty list, so that in a
\* list of composite elements an empty-array element is never grouped with a
\* non-empty-array element.
C11_EmptyListIdentity ==
    \A n \in DOMAIN lists : \A i, j \in DOMAIN lists[n].original_list :
        (/\ lists[n].original_list[i] = Arr(<<>>)
         /\ lists[n].original_list[j].t = "arr"
         /\ lists[n].original_list[j].a # <<>>)
        => /\ lists[n].hash_sequence[i] # lists[n].hash_sequence[j]
           /\ lists[n].hash_sequence[i] = generate_hash(EmptyList)
           /\ \A io \in IterOrders :
                  get_deep_structure_key_cached(lists[n].original_list[j], strict_typing,
                                                structure_cache, io).key # EmptyList

C11_Witness ==
    /\ pc = "done" /\ position_dependent
    /\ \E n \in DOMAIN lists :
         /\ Len(lists[n].original_list) = 3
         /\ lists[n].original_list[1].t = "arr" /\ lists[n].original_list[1].a # <<>>
         /\ lists[n].original_list[2] = Arr(<<>>)
         /\ lists[n].original_list[3] = Arr(<<>>)
         /\ lists[n].decisions = <<TRUE, TRUE, FALSE>>

\* the text "true" or "false"
BoolText(b) == IF b THEN <<"t", "r", "u", "e">> ELSE <<"f", "a", "l", "s", "e">>

\* C12. Metadata round-trip: for each of the four combinations of
\* strict_typing and position_dependent the description returned by
\* distill_json states the position_dependent value after
\* "POSITION_DEPENDENT mode: " and the strict_typing value after "Strict
\* primitive typing for structure detection: ", and is the same text for every
\* document and every repeat threshold.
C12_DescriptionStatesOptions ==
    pc = "done" =>
        /\ result.t = "obj"
        /\ result.o[1][1] = "description"
        /\ result.o[1][2] =
               Str(<<DescriptionHead>> \o BoolText(position_dependent)
                   \o <<DescriptionMiddle>> \o BoolText(strict_typing)
                   \o <<DescriptionTail>>)

C12_Witness ==
    /\ pc = "done"
    /\ strict_typing /\ ~position_dependent
    /\ doc.t = "obj"
    /\ SubSeq(Field(result, "description").s, 2, 6) = <<"f", "a", "l", "s", "e">>
    /\ SubSeq(Field(result, "description").s, 8, 11) = <<"t", "r", "u", "e">>

\* C13. No error on valid input: distill_json returns Ok for every document
\* and every option tuple; the three Internal error branches are never taken,
\* every fingerprint looked up in local_first_examples and
\* distilled_first_examples in passes 2 and 3 being present.
C13_NoInternalError ==
    /\ pc # "error"
    /\ pc = "done" =>
           /\ result.t = "obj"
           /\ \A n \in DOMAIN lists :
                  \A h \in Range(lists[n].hash_sequence) :
                      /\ \E i \in DOMAIN lists[n].original_list :
                             lists[n].hash_sequence[i] = h
                      /\ <<FALSE, h, lists[n].depth, 0>> \in DOMAIN memoized_examples

C13_Witness ==
    /\ pc = "done"
    /\ Len(lists) >= 3
    /\ \E n \in DOMAIN lists :
         /\ \E i \in DOMAIN lists[n].decisions : lists[n].decisions[i]
         /\ \E i \in DOMAIN lists[n].decisions : ~lists[n].decisions[i]
         /\ \E i \in DOMAIN lists[n].original_list : ~IsContainer(lists[n].original_list[i])

\* the first element of a processed list that has fingerprint h
FirstExample(l, h) ==
    l.original_list[CHOOSE i \in DOMAIN l.hash_sequence :
                        l.hash_sequence[i] = h /\ FirstIn(l.hash_sequence, i)]

\* the distillation at depth + 1 of that element on its own: a run of the
\* engine on it with an empty Example Memo
OwnDistillation(l, h) ==
    distill_recursive(FirstExample(l, h), l.depth + 1,
        [strict |-> strict_typing, posdep |-> position_dependent, io |-> "fwd",
         min_depths |-> min_depths, memo |-> <<>>, cache |-> EmptyCache,
         shown |-> <<>>, lists |-> <<>>, err |-> NoError]).val

\* C14. The representative is the list's own first element: in every list
\* processed on the shape path the value inlined for fingerprint F is the
\* distillation at depth + 1 of that list's first element of fingerprint F,
\* apart from an added _structure_hash field, also when another list of the
\* same depth with an F-shaped element was processed earlier. Stated for
\* position_dependent = true, where the distillation of an element does not
\* depend on the shown-counter.
C14_OwnFirstElement ==
    (pc = "done" /\ position_dependent) =>
        \A n \in DOMAIN lists : \A h \in DOMAIN lists[n].first_item_positions :
            Untagged(Inlined(lists[n], h)) = Untagged(OwnDistillation(lists[n], h))

\* The entries a sequence of decisions calls for, from position i on: the
\* position of each inlined element, and the length of each maximal run of
\* folded positions where the run started. run is the length of the run that
\* is open at position i; position is where the run started.
RECURSIVE Assembly(_, _, _)
Assembly(decisions, i, run) ==
    IF i > Len(decisions)
    THEN (IF run > 0 THEN <<[summary |-> TRUE, position |-> i - run, count |-> run]>>
          ELSE <<>>)
    ELSE IF decisions[i]
         THEN (IF run > 0
               THEN <<[summary |-> TRUE, position |-> i - run, count |-> run]>>
               ELSE <<>>)
              \o <<[summary |-> FALSE, position |-> i]>>
              \o Assembly(decisions, i + 1, 0)
         ELSE Assembly(decisions, i + 1, run + 1)

\* a summary record: item_count and summarized_pattern, nothing else
IsSummary(v) ==
    /\ v.t = "obj"
    /\ Len(v.o) = 2
    /\ v.o[1][1] = "item_count" /\ v.o[1][2].t = "num"
    /\ v.o[2][1] = "summarized_pattern" /\ v.o[2][2].t = "str"

RECURSIVE Sum(_)
Sum(s) == IF s = <<>> THEN 0 ELSE Head(s) + Sum(Tail(s))

\* C15. Run assembly: the output of every list processed on the shape path is
\* the input positions in order, each inlined position replaced by its
\* distilled representative and each maximal run of folded positions by one
\* summary record where the run started, with item_count the run's length;
\* so no two summary records are adjacent, and the inlined entries plus the
\* item_counts add up to the length of the input list.
C15_RunAssembly ==
    \A n \in DOMAIN lists :
        LET l == lists[n]
            entries == Assembly(l.decisions, 1, 0)
        IN  /\ Len(l.new_list) = Len(entries)
            /\ \A k \in DOMAIN entries :
                   IF entries[k].summary
                   THEN /\ IsSummary(l.new_list[k])
                        /\ l.new_list[k].o[1][2] = Num(entries[k].count)
                   ELSE /\ ~IsSummary(l.new_list[k])
                        /\ l.first_item_positions[l.hash_sequence[entries[k].position]]
                           = k - 1
                        /\ Untagged(l.new_list[k])
                           = Untagged(memoized_examples[
                                 <<FALSE, l.hash_sequence[entries[k].position],
                                   l.depth, 0>>].val)
            /\ \A k \in 1..(Len(l.new_list) - 1) :
                   ~(IsSummary(l.new_list[k]) /\ IsSummary(l.new_list[k + 1]))
            /\ Cardinality({k \in DOMAIN l.new_list : ~IsSummary(l.new_list[k])})
               + Sum([k \in DOMAIN l.new_list |->
                         IF IsSummary(l.new_list[k]) THEN l.new_list[k].o[1][2].n ELSE 0])
               = Len(l.original_list)

C15_Witness ==
    /\ pc = "done"
    /\ \E n \in DOMAIN lists :
         /\ lists[n].decisions = <<TRUE, FALSE, TRUE>>
         /\ Len(lists[n].new_list) = 3
         /\ IsSummary(lists[n].new_list[2])
         /\ lists[n].new_list[2].o[1][2] = Num(1)

\* the fingerprints that occur in the compressed pattern of some summary
\* record of a processed list
InSummaries(l) ==
    LET entries == Assembly(l.decisions, 1, 0)
    IN  UNION {ReferencedHashes(find_adjacent_patterns_python_style(
                   SubSeq(l.hash_sequence, entries[k].position,
                          entries[k].position + entries[k].count - 1))) :
               k \in {j \in DOMAIN entries : entries[j].summary}}

\* C16. Cross-reference tag: in every output list an inlined representative
\* gets a _structure_hash field holding its fingerprint exactly when it is an
\* object and its fingerprint occurs in the compressed pattern of a summary
\* record of the same list; a _structure_hash field the representative already
\* has is not overwritten, a representative that is no object is not tagged,
\* and the copy in the Example Memo stays without the tag.
C16_CrossReferenceTag ==
    \A n \in DOMAIN lists :
        LET l == lists[n]
            entries == Assembly(l.decisions, 1, 0)
        IN  \A k \in {j \in DOMAIN entries : ~entries[j].summary} :
                LET h == l.hash_sequence[entries[k].position]
                    memoized == memoized_examples[<<FALSE, h, l.depth, 0>>].val
                    shown == l.new_list[k]
                IN  /\ IF /\ memoized.t = "obj"
                          /\ h \in InSummaries(l)
                          /\ ~HasField(memoized, "_structure_hash")
                       THEN shown = Obj(Append(memoized.o,
                                               <<"_structure_hash", Str(h)>>))
                       ELSE shown = memoized
                    /\ (memoized.t = "obj" /\ HasField(memoized, "_structure_hash"))
                       => HasField(l.original_list[entries[k].position],
                                   "_structure_hash")

C16_Witness ==
    /\ pc = "done"
    /\ \E n \in DOMAIN lists :
         \E h \in DOMAIN lists[n].first_item_positions :
         \E g \in DOMAIN lists[n].first_item_positions :
            /\ h \in InSummaries(lists[n])
            /\ Inlined(lists[n], h).t = "obj"
            /\ HasField(Inlined(lists[n], h), "_structure_hash")
            /\ Field(Inlined(lists[n], h), "_structure_hash") = Str(h)
            /\ ~HasField(memoized_examples[<<FALSE, h, lists[n].depth, 0>>].val,
                         "_structure_hash")
            /\ g \notin InSummaries(lists[n])
            /\ Inlined(lists[n], g).t = "obj"
            /\ ~HasField(Inlined(lists[n], g), "_structure_hash")

\* an inlined representative that came with a _structure_hash field of its
\* own and is referred to by a summary keeps that field as it was
C16_WitnessKept ==
    /\ pc = "done"
    /\ \E n \in DOMAIN lists :
         \E h \in DOMAIN lists[n].first_item_positions :
            /\ h \in InSummaries(lists[n])
            /\ Inlined(lists[n], h) = TG

\* The list elements of a document by a structural walk: <<F, d>> for every
\* element with fingerprint F of a non-empty list at depth d that has an object
\* or array element. The fingerprint is that of the element's own structural
\* key, computed without the Structure Cache.
RECURSIVE ListElements(_, _, _)
ListElements(v, depth, strict) ==
    CASE v.t = "obj" ->
            UNION {ListElements(v.o[i][2], depth + 1, strict) : i \in DOMAIN v.o}
      [] v.t = "arr" ->
            IF \A i \in DOMAIN v.a : ~IsContainer(v.a[i]) THEN {}
            ELSE UNION {{<<generate_hash(StructuralKey(v.a[i], strict)), depth>>}
                        \cup ListElements(v.a[i], depth + 1, strict) :
                        i \in DOMAIN v.a}
      [] OTHER -> {}

\* the smallest depth of each fingerprint of a set of <<F, d>>
Shallowest(elements) ==
    [F \in {e[1] : e \in elements} |->
        CHOOSE d \in {e[2] : e \in {x \in elements : x[1] = F}} :
            \A e \in elements : e[1] = F => d <= e[2]]

SameTable(f, g) == DOMAIN f = DOMAIN g /\ \A x \in DOMAIN f : f[x] = g[x]

\* C17. Depth Scanner result: after collect_structure_depths(document, 0) the
\* min-depth table maps every fingerprint F to the smallest depth of a
\* non-empty list with an object or array element that has an element with
\* fingerprint F, and has no entry for any other fingerprint.
C17_MinDepthTable ==
    (pc = "done" /\ ~position_dependent)
        => SameTable(min_depths, Shallowest(ListElements(doc, 0, strict_typing)))

\* a value and everything nested in it
RECURSIVE Subvalues(_)
Subvalues(v) ==
    {v} \cup CASE v.t = "obj" -> UNION {Subvalues(v.o[i][2]) : i \in DOMAIN v.o}
              [] v.t = "arr" -> UNION {Subvalues(v.a[i]) : i \in DOMAIN v.a}
              [] OTHER -> {}

\* a document in which no two objects differ in the order of their fields only
NoTwins == ~(\E x, y \in Subvalues(doc) : x # y /\ Reordered(x, y))

C17_MinDepthTableNoTwins == NoTwins => C17_MinDepthTable

\* C18. Cache transparency: in every state of the Structure Cache that earlier
\* calls of one run leave, get_deep_structure_key_cached returns for a value
\* the key that get_deep_structure_key_impl computes for it on an empty cache.
C18_CacheTransparent ==
    \A i \in DOMAIN keyed : \A io \in IterOrders :
        keyed[i].key
        = get_deep_structure_key_impl(keyed[i].item, strict_typing, EmptyCache, io).key

\* the same for calls on values that no earlier call of the behaviour has seen
\* in another field order
C18_CacheTransparentNoTwins ==
    (\A i, j \in DOMAIN keyed : \A x \in Subvalues(keyed[i].item) :
         \A y \in Subvalues(keyed[j].item) : ~Reordered(x, y))
    => C18_CacheTransparent

\* C19. Scanner/engine depth agreement: with position_dependent = false, every
\* fingerprint of every list that distill_recursive processes on the shape
\* path at depth d has an entry of the min-depth table that is at most d; the
\* table the main pass ends with is the one the scanner returned; and the
\* shown-counter of every fingerprint is 0 or 1.
C19_DepthAgreement ==
    (pc = "done" /\ ~position_dependent) =>
        /\ \A n \in DOMAIN lists : \A i \in DOMAIN lists[n].hash_sequence :
               /\ lists[n].hash_sequence[i] \in DOMAIN min_depths
               /\ min_depths[lists[n].hash_sequence[i]] <= lists[n].depth
               /\ min_depths[lists[n].hash_sequence[i]] # NoDepth
        /\ \E io \in IterOrders :
               SameTable(min_depths,
                         collect_structure_depths(doc, 0, strict_typing, io,
                                                  EmptyCache, <<>>).accumulator)
        /\ \A F \in DOMAIN global_examples_shown : global_examples_shown[F] \in {0, 1}

C19_Witness ==
    /\ pc = "done" /\ ~position_dependent
    /\ \E n \in DOMAIN lists : \E i \in DOMAIN lists[n].hash_sequence :
         LET F == lists[n].hash_sequence[i]
         IN  /\ lists[n].depth = 2
             /\ min_depths[F] = 0
             /\ ~lists[n].decisions[i]
             /\ global_examples_shown[F] = 1

\* n copies of a sequence, one after the other
RECURSIVE Repeated(_, _)
Repeated(seq, n) == IF n <= 0 THEN <<>> ELSE seq \o Repeated(seq, n - 1)

\* what an entry of pattern_output stands for: a bare entry for one
\* fingerprint, a record for its pattern repeated `repeat` times
Expansion(entry) ==
    IF entry.t = "str" THEN <<entry.s>>
    ELSE Repeated([j \in DOMAIN Field(entry, "pattern").a |->
                      Field(entry, "pattern").a[j].s],
                  Field(entry, "repeat").n)

RECURSIVE Expand(_)
Expand(out) == IF out = <<>> THEN <<>> ELSE Expansion(Head(out)) \o Expand(Tail(out))

\* C20. Pattern compression is lossless and advances: the entries of
\* find_adjacent_patterns_python_style(S), expanded and concatenated in order,
\* give S; every record has a pattern of one or two fingerprints and
\* repeat >= 2, the two fingerprints of a two-element pattern differ, no two
\* adjacent bare entries are equal, and every entry stands for at least one
\* position of S, so the output is no longer than S.
C20_LosslessCompression ==
    /\ Expand(pattern_output) = hash_sequence
    /\ \A k \in DOMAIN pattern_output :
           LET entry == pattern_output[k]
           IN  /\ Len(Expansion(entry)) >= 1
               /\ entry.t # "str" =>
                      /\ entry.t = "obj"
                      /\ Field(entry, "repeat").n >= 2
                      /\ Len(Field(entry, "pattern").a) \in {1, 2}
                      /\ Len(Field(entry, "pattern").a) = 2 =>
                             Field(entry, "pattern").a[1] # Field(entry, "pattern").a[2]
    /\ \A k \in 1..(Len(pattern_output) - 1) :
           (pattern_output[k].t = "str" /\ pattern_output[k + 1].t = "str")
               => pattern_output[k] # pattern_output[k + 1]
    /\ Len(pattern_output) <= Len(hash_sequence)

C20_Witness ==
    /\ hash_sequence = <<<<"h", "3">>, <<"h", "1">>, <<"h", "1">>, <<"h", "2">>,
                         <<"h", "3">>, <<"h", "2">>>>
    /\ pattern_output = <<Str(<<"h", "3">>),
                          PatternRecord(<< <<"h", "1">> >>, 2),
                          Str(<<"h", "2">>), Str(<<"h", "3">>), Str(<<"h", "2">>)>>

\* a bare entry, a two-element record of two pairs and a bare entry
C20_WitnessPairs ==
    /\ hash_sequence = <<<<"h", "3">>, <<"h", "1">>, <<"h", "2">>, <<"h", "1">>,
                         <<"h", "2">>, <<"h", "1">>>>
    /\ pattern_output = <<Str(<<"h", "3">>),
                          PatternRecord(<< <<"h", "1">>, <<"h", "2">> >>, 2),
                          Str(<<"h", "1">>)>>

====
